---------------------------- MODULE Spec2Model ----------------------------
(***************************************************************************)
(* The CHIP-8 interpreter core of CRISP-8 (crisp8_core/src/lib.rs) and the *)
(* calls the desktop front end makes on it (desktop/src/main.rs).          *)
(*                                                                         *)
(* The fields of struct Emu are the variables pc .. st.  A Rust panic      *)
(* (index out of bounds, unimplemented!, checked arithmetic overflow)      *)
(* unwinds out of the call and leaves the fields as they were at the       *)
(* panicking statement; `panic` records its kind.  Arithmetic overflow     *)
(* depends on the build profile (checked in debug, wrapping in release):   *)
(* `overflow_checks` is chosen once, in Init.                              *)
(*                                                                         *)
(* The two big arrays are held by their non-default cells: `ram` is the    *)
(* function from the addresses whose byte is not 0 to that byte (every     *)
(* other address of 0..RAM_SIZE-1 reads 0), and `screen` is the set of the *)
(* pixel indices that are on.  ram_get/ram_set and screen_get/screen_flip  *)
(* are the array reads and writes.                                         *)
(***************************************************************************)
EXTENDS Integers, Sequences, FiniteSets, TLC

\* ------------------------------------------------------------ constants
SCREEN_WIDTH == 64
SCREEN_HEIGHT == 32
RAM_SIZE == 4096
NUM_REGS == 16
STACK_SIZE == 16
NUM_KEYS == 16
START_ADDR == 512
FONT_ADDR == 80
FONTSET_SIZE == 80
TICKS_PER_FRAME == 10

FONTSET ==
  << 240, 144, 144, 144, 240,
      32,  96,  32,  32, 112,
     240,  16, 240, 128, 240,
     240,  16, 240,  16, 240,
     144, 144, 240,  16,  16,
     240, 128, 240,  16, 240,
     240, 128, 240, 144, 240,
     240,  16,  32,  64,  64,
     240, 144, 240, 144, 240,
     240, 144, 240,  16, 240,
     240, 144, 240, 144, 144,
     224, 144, 224, 144, 224,
     240, 128, 128, 128, 240,
     224, 144, 144, 144, 224,
     240, 128, 240, 128, 240,
     240, 128, 240, 128, 128 >>

\* ------------------------------------------------- fixed-width integers
U8 == 256
U16 == 65536

\* bit k (0 = least significant) of a non-negative integer
Bit(v, k) == (v \div (2 ^ k)) % 2

BitAnd(a, b) ==
  LET f[k \in 0..16] == IF k = 16 THEN 0
                        ELSE (IF Bit(a, k) = 1 /\ Bit(b, k) = 1 THEN 2 ^ k ELSE 0) + f[k + 1]
  IN f[0]

BitOr(a, b) ==
  LET f[k \in 0..16] == IF k = 16 THEN 0
                        ELSE (IF Bit(a, k) = 1 \/ Bit(b, k) = 1 THEN 2 ^ k ELSE 0) + f[k + 1]
  IN f[0]

BitXor(a, b) ==
  LET f[k \in 0..16] == IF k = 16 THEN 0
                        ELSE (IF Bit(a, k) # Bit(b, k) THEN 2 ^ k ELSE 0) + f[k + 1]
  IN f[0]

\* ------------------------------------------------------- [u8; RAM_SIZE]
\* [0; RAM_SIZE]
ram_zero == [ a \in {} |-> 0 ]

\* m[a], for a < RAM_SIZE
ram_get(m, a) == IF a \in DOMAIN m THEN m[a] ELSE 0

\* m[a] = v, for a < RAM_SIZE
ram_set(m, a, v) ==
  [ b \in (IF v = 0 THEN DOMAIN m \ {a} ELSE DOMAIN m \cup {a}) |->
      IF b = a THEN v ELSE m[b] ]

\* m[start..start + Len(data)].copy_from_slice(data), the range within RAM_SIZE
ram_copy(m, start, data) ==
  LET end == start + Len(data)
      kept == { b \in DOMAIN m : b < start \/ b >= end }
      written == { b \in start..(end - 1) : data[b - start + 1] # 0 }
  IN [ b \in kept \cup written |->
         IF b >= start /\ b < end THEN data[b - start + 1] ELSE m[b] ]

\* ------------------------------------ [bool; SCREEN_WIDTH * SCREEN_HEIGHT]
\* [false; SCREEN_WIDTH * SCREEN_HEIGHT]
screen_off == {}

\* s[i]
screen_get(s, i) == i \in s

\* s[i] ^= true
screen_flip(s, i) == IF i \in s THEN s \ {i} ELSE s \cup {i}

\* ------------------------------------------------------------ the state
VARIABLES
  pc, ram, screen, keys, v_reg, i_reg, stack, sp, dt, st,  \* struct Emu
  panic,            \* "none", or the kind of the panic that ended the program
  stdout,           \* the lines the last call printed
  overflow_checks,  \* the build checks integer overflow (debug profile)
  call,             \* the last call made on the core, with what it fetched
  cycles,           \* tick() calls since construction or the last reset
  timer_log,        \* each timer's last written value and the tick_timers() calls since
  call_log,         \* the 2nnn and 00EE executed since construction or the last reset
  old               \* the core, the call record and the logs before the last call

emu_vars == << pc, ram, screen, keys, v_reg, i_reg, stack, sp, dt, st, panic, stdout >>
vars == << pc, ram, screen, keys, v_reg, i_reg, stack, sp, dt, st, panic, stdout,
           overflow_checks, call, cycles, timer_log, call_log, old >>

\* the core as one value
Cur ==
  [ pc |-> pc, ram |-> ram, screen |-> screen, keys |-> keys, v_reg |-> v_reg,
    i_reg |-> i_reg, stack |-> stack, sp |-> sp, dt |-> dt, st |-> st,
    panic |-> panic, stdout |-> stdout ]

Set(e) ==
  /\ pc' = e.pc
  /\ ram' = e.ram
  /\ screen' = e.screen
  /\ keys' = e.keys
  /\ v_reg' = e.v_reg
  /\ i_reg' = e.i_reg
  /\ stack' = e.stack
  /\ sp' = e.sp
  /\ dt' = e.dt
  /\ st' = e.st
  /\ panic' = e.panic
  /\ stdout' = e.stdout

Panic(e, kind) == [e EXCEPT !.panic = kind]

\* ------------------------------------------------------ Emu::new, reset
Emu_new ==
     [ pc |-> START_ADDR,
       ram |-> ram_copy(ram_zero, FONT_ADDR, FONTSET),
       screen |-> screen_off,
       keys |-> [ k \in 0..(NUM_KEYS - 1) |-> FALSE ],
       v_reg |-> [ r \in 0..(NUM_REGS - 1) |-> 0 ],
       i_reg |-> 0,
       sp |-> 0,
       stack |-> [ s \in 0..(STACK_SIZE - 1) |-> 0 ],
       dt |-> 0,
       st |-> 0,
       panic |-> "none",
       stdout |-> << >> ]

\* reset that forgets the keys
reset_keeps_keys(e) ==
  [Emu_new EXCEPT !.keys = e.keys]

reset(e) ==
  LET e1 == [e EXCEPT !.pc = START_ADDR]
      e2 == [e1 EXCEPT !.ram = ram_zero]
      e3 == [e2 EXCEPT !.screen = screen_off]
      e4 == [e3 EXCEPT !.keys = [ k \in 0..(NUM_KEYS - 1) |-> FALSE ]]
      e5 == [e4 EXCEPT !.v_reg = [ r \in 0..(NUM_REGS - 1) |-> 0 ]]
      e6 == [e5 EXCEPT !.i_reg = 0]
      e7 == [e6 EXCEPT !.sp = 0]
      e8 == [e7 EXCEPT !.stack = [ s \in 0..(STACK_SIZE - 1) |-> 0 ]]
      e9 == [e8 EXCEPT !.dt = 0]
      e10 == [e9 EXCEPT !.st = 0]
  IN [e10 EXCEPT !.ram = ram_copy(e10.ram, FONT_ADDR, FONTSET)]

\* ------------------------------------------------------------ push, pop
\* push on a stack that wraps: stack[sp % STACK_SIZE] = val
push_wrapping(e, val) ==
  [e EXCEPT !.stack[e.sp % STACK_SIZE] = val, !.sp = e.sp + 1]

\* stack[sp] = val is bounds-checked before sp += 1
push(e, val) ==
  IF e.sp >= STACK_SIZE THEN Panic(e, "index")
  ELSE [e EXCEPT !.stack[e.sp] = val, !.sp = e.sp + 1]

\* pop that returns the oldest frame, stack[0]
pop_oldest(e) ==
  IF e.sp = 0
  THEN IF overflow_checks
       THEN [ e |-> Panic(e, "overflow"), ret |-> 0 ]
       ELSE [ e |-> Panic([e EXCEPT !.sp = U16 - 1], "index"), ret |-> 0 ]
  ELSE IF e.sp - 1 >= STACK_SIZE
       THEN [ e |-> Panic([e EXCEPT !.sp = e.sp - 1], "index"), ret |-> 0 ]
       ELSE [ e |-> [e EXCEPT !.sp = e.sp - 1], ret |-> e.stack[0] ]

\* sp -= 1 on a u16, then stack[sp]; the popped value is field ret
pop(e) ==
  IF e.sp = 0
  THEN IF overflow_checks
       THEN [ e |-> Panic(e, "overflow"), ret |-> 0 ]
       ELSE [ e |-> Panic([e EXCEPT !.sp = U16 - 1], "index"), ret |-> 0 ]
  ELSE IF e.sp - 1 >= STACK_SIZE
       THEN [ e |-> Panic([e EXCEPT !.sp = e.sp - 1], "index"), ret |-> 0 ]
       ELSE [ e |-> [e EXCEPT !.sp = e.sp - 1], ret |-> e.stack[e.sp - 1] ]

\* --------------------------------------------------------- tick_timers
\* tick_timers that decrements without testing for 0 (wrapping_sub)
tick_timers_wrapping(e) ==
  LET e1 == [e EXCEPT !.dt = (e.dt - 1) % U8]
      e2 == [e1 EXCEPT !.st = (e1.st - 1) % U8]
  IN IF e2.st = 0 THEN [e2 EXCEPT !.stdout = Append(e2.stdout, "Boop!")] ELSE e2

\* tick_timers that tests st == 0 outside the st > 0 block
tick_timers_boop_at_zero(e) ==
  LET e1 == IF e.dt > 0 THEN [e EXCEPT !.dt = e.dt - 1] ELSE e
      e2 == IF e1.st > 0 THEN [e1 EXCEPT !.st = e1.st - 1] ELSE e1
  IN IF e2.st = 0 THEN [e2 EXCEPT !.stdout = Append(e2.stdout, "Boop!")] ELSE e2

tick_timers(e) ==
  LET e1 == IF e.dt > 0 THEN [e EXCEPT !.dt = e.dt - 1] ELSE e
  IN IF e1.st > 0
     THEN LET e2 == [e1 EXCEPT !.st = e1.st - 1]
          IN IF e2.st = 0 THEN [e2 EXCEPT !.stdout = Append(e2.stdout, "Boop!")] ELSE e2
     ELSE e1

\* ---------------------------------------------------------------- fetch
\* the opcode is field op; -1 when the read panicked
fetch(e) ==
  IF e.pc >= RAM_SIZE \/ e.pc + 1 >= RAM_SIZE
  THEN [ e |-> Panic(e, "index"), op |-> -1 ]
  ELSE LET higher_byte == ram_get(e.ram, e.pc)
           lower_byte == ram_get(e.ram, e.pc + 1)
           op == higher_byte * 256 + lower_byte
       IN [ e |-> [e EXCEPT !.pc = e.pc + 2], op |-> op ]

\* -------------------------------------------------------------- decode
\* digit4 with the mask and shift of digit3: (op & 0x00f0) >> 4
digit4_of_digit3(op) == (op \div 16) % 16

digit1(op) == (op \div 4096) % 16
digit2(op) == (op \div 256) % 16
digit3(op) == (op \div 16) % 16
digit4(op) == op % 16
NN(op) == op % 256
NNN(op) == op % 4096

\* The patterns of the arms of execute's match, in the order of the source;
\* -1 is the wildcard _.  The last arm, (_, _, _, _), is not in the list.
Patterns ==
  << << 0, 0, 0, 0 >>, << 0, 0, 14, 0 >>, << 1, -1, -1, -1 >>, << 2, -1, -1, -1 >>,
     << 0, 0, 14, 14 >>, << 3, -1, -1, -1 >>, << 4, -1, -1, -1 >>, << 5, -1, -1, 0 >>,
     << 9, -1, -1, 0 >>, << 6, -1, -1, -1 >>, << 7, -1, -1, -1 >>, << 8, -1, -1, 0 >>,
     << 8, -1, -1, 1 >>, << 8, -1, -1, 2 >>, << 8, -1, -1, 3 >>, << 8, -1, -1, 4 >>,
     << 8, -1, -1, 5 >>, << 8, -1, -1, 7 >>, << 8, -1, -1, 6 >>, << 8, -1, -1, 14 >>,
     << 10, -1, -1, -1 >>, << 11, -1, -1, -1 >>, << 12, -1, -1, -1 >>, << 13, -1, -1, -1 >>,
     << 14, -1, 9, 14 >>, << 14, -1, 10, 1 >>, << 15, -1, 0, 7 >>, << 15, -1, 1, 5 >>,
     << 15, -1, 1, 8 >>, << 15, -1, 1, 14 >>, << 15, -1, 0, 10 >>, << 15, -1, 2, 9 >>,
     << 15, -1, 3, 3 >>, << 15, -1, 5, 5 >>, << 15, -1, 6, 5 >> >>

\* the tuple (digit1, digit2, digit3, digit4) of op matches pattern p
MatchesArm(op, p) ==
  /\ p[1] \in { -1, digit1(op) }
  /\ p[2] \in { -1, digit2(op) }
  /\ p[3] \in { -1, digit3(op) }
  /\ p[4] \in { -1, digit4(op) }

\* ------------------------------------------------------- opcode effects
\* 00E0 that clears the collision flag with the screen
op_00E0_clears_flag(e, op) ==
  [e EXCEPT !.screen = screen_off, !.v_reg[15] = 0]

\* 00E0: CLS
op_00E0(e, op) ==
  [e EXCEPT !.screen = screen_off]

\* 1NNN: JMP NNN
op_1NNN(e, op) == [e EXCEPT !.pc = NNN(op)]

\* 2NNN: CALL NNN
op_2NNN(e, op) ==
  LET e1 == push(e, e.pc)
  IN IF e1.panic # "none" THEN e1 ELSE [e1 EXCEPT !.pc = NNN(op)]

\* 00EE: RET
op_00EE(e, op) ==
  LET r == pop(e)
  IN IF r.e.panic # "none" THEN r.e ELSE [r.e EXCEPT !.pc = r.ret]

\* 3XNN: SKIP VX == NN
op_3XNN(e, op) ==
  IF e.v_reg[digit2(op)] = NN(op) THEN [e EXCEPT !.pc = e.pc + 2] ELSE e

\* 4XNN: SKIP VX != NN
op_4XNN(e, op) ==
  IF e.v_reg[digit2(op)] # NN(op) THEN [e EXCEPT !.pc = e.pc + 2] ELSE e

\* 5XY0: SKIP VX == VY
op_5XY0(e, op) ==
  IF e.v_reg[digit2(op)] = e.v_reg[digit3(op)] THEN [e EXCEPT !.pc = e.pc + 2] ELSE e

\* 9XY0 with the comparison of 5XY0
op_9XY0_equal(e, op) ==
  IF e.v_reg[digit2(op)] = e.v_reg[digit3(op)] THEN [e EXCEPT !.pc = e.pc + 2] ELSE e

\* 9XY0: SKIP VX != VY
op_9XY0(e, op) ==
  IF e.v_reg[digit2(op)] # e.v_reg[digit3(op)] THEN [e EXCEPT !.pc = e.pc + 2] ELSE e

\* 6XNN: VX = NN
op_6XNN(e, op) == [e EXCEPT !.v_reg[digit2(op)] = NN(op)]

\* 7XNN: VX += NN (wrapping_add)
op_7XNN(e, op) ==
  [e EXCEPT !.v_reg[digit2(op)] = (e.v_reg[digit2(op)] + NN(op)) % U8]

\* 8XY0: VX = VY
op_8XY0(e, op) == [e EXCEPT !.v_reg[digit2(op)] = e.v_reg[digit3(op)]]

\* 8XY1: VX |= VY
op_8XY1(e, op) ==
  [e EXCEPT !.v_reg[digit2(op)] = BitOr(e.v_reg[digit2(op)], e.v_reg[digit3(op)])]

\* 8XY2: VX &= VY
op_8XY2(e, op) ==
  [e EXCEPT !.v_reg[digit2(op)] = BitAnd(e.v_reg[digit2(op)], e.v_reg[digit3(op)])]

\* 8XY3: VX ^= VY
op_8XY3(e, op) ==
  [e EXCEPT !.v_reg[digit2(op)] = BitXor(e.v_reg[digit2(op)], e.v_reg[digit3(op)])]

\* 8XY4 that writes VF before VX
op_8XY4_flag_first(e, op) ==
  LET x == digit2(op)
      y == digit3(op)
      sum == e.v_reg[x] + e.v_reg[y]
      e1 == [e EXCEPT !.v_reg[15] = IF sum >= U8 THEN 1 ELSE 0]
  IN [e1 EXCEPT !.v_reg[x] = sum % U8]

\* 8XY4: VX += VY (overflowing_add), then VF = carry
op_8XY4(e, op) ==
  LET x == digit2(op)
      y == digit3(op)
      sum == e.v_reg[x] + e.v_reg[y]
      new_vx == sum % U8
      carry == sum >= U8
      new_vf == IF carry THEN 1 ELSE 0
      e1 == [e EXCEPT !.v_reg[x] = new_vx]
  IN [e1 EXCEPT !.v_reg[15] = new_vf]

\* 8XY5: VX -= VY (overflowing_sub), then VF = not borrow
op_8XY5(e, op) ==
  LET x == digit2(op)
      y == digit3(op)
      diff == e.v_reg[x] - e.v_reg[y]
      new_vx == diff % U8
      borrow == diff < 0
      new_vf == IF borrow THEN 0 ELSE 1
      e1 == [e EXCEPT !.v_reg[x] = new_vx]
  IN [e1 EXCEPT !.v_reg[15] = new_vf]

\* 8XY7 with the operands of 8XY5
op_8XY7_swapped(e, op) ==
  LET x == digit2(op)
      y == digit3(op)
      diff == e.v_reg[x] - e.v_reg[y]
      e1 == [e EXCEPT !.v_reg[x] = diff % U8]
  IN [e1 EXCEPT !.v_reg[15] = IF diff < 0 THEN 0 ELSE 1]

\* 8XY7: VX = VY - VX (overflowing_sub), then VF = not borrow
op_8XY7(e, op) ==
  LET x == digit2(op)
      y == digit3(op)
      diff == e.v_reg[y] - e.v_reg[x]
      new_vx == diff % U8
      borrow == diff < 0
      new_vf == IF borrow THEN 0 ELSE 1
      e1 == [e EXCEPT !.v_reg[x] = new_vx]
  IN [e1 EXCEPT !.v_reg[15] = new_vf]

\* 8XY6: VX >>= 1, then VF = the lost bit
op_8XY6(e, op) ==
  LET x == digit2(op)
      lost_bit == e.v_reg[x] % 2
      e1 == [e EXCEPT !.v_reg[x] = e.v_reg[x] \div 2]
  IN [e1 EXCEPT !.v_reg[15] = lost_bit]

\* 8XYE: VX <<= 1, then VF = the lost bit
op_8XYE(e, op) ==
  LET x == digit2(op)
      lost_bit == (e.v_reg[x] \div 128) % 2
      e1 == [e EXCEPT !.v_reg[x] = (e.v_reg[x] * 2) % U8]
  IN [e1 EXCEPT !.v_reg[15] = lost_bit]

\* ANNN: I = NNN
op_ANNN(e, op) == [e EXCEPT !.i_reg = NNN(op)]

\* BNNN: JMP NNN + V0
op_BNNN(e, op) == [e EXCEPT !.pc = e.v_reg[0] + NNN(op)]

\* CXNN: VX = rand() & NN; random_num is what random() returned
op_CXNN(e, op, random_num) ==
  [e EXCEPT !.v_reg[digit2(op)] = BitAnd(random_num, NN(op))]

\* ------------------------------------------------------------ Emu::draw
\* draw_cols that wraps a column past the right edge to the left edge
RECURSIVE draw_cols_wrap(_, _, _, _, _, _)
draw_cols_wrap(d, x_coord, y_coord, row, pixels, col) ==
  IF col >= 8 THEN d
  ELSE IF y_coord + row >= SCREEN_HEIGHT THEN d
  ELSE IF Bit(pixels, 7 - col) # 0
       THEN LET pixel_index == ((x_coord + col) % SCREEN_WIDTH) + SCREEN_WIDTH * (y_coord + row)
                d1 == [ screen |-> screen_flip(d.screen, pixel_index),
                        flip |-> d.flip \/ screen_get(d.screen, pixel_index) ]
            IN draw_cols_wrap(d1, x_coord, y_coord, row, pixels, col + 1)
       ELSE draw_cols_wrap(d, x_coord, y_coord, row, pixels, col + 1)

\* draw_cols that sets the pixel instead of flipping it
RECURSIVE draw_cols_set(_, _, _, _, _, _)
draw_cols_set(d, x_coord, y_coord, row, pixels, col) ==
  IF col >= 8 THEN d
  ELSE IF y_coord + row >= SCREEN_HEIGHT THEN d
  ELSE IF Bit(pixels, 7 - col) # 0
       THEN LET x == x_coord + col
                y == y_coord + row
            IN IF x >= SCREEN_WIDTH THEN d
               ELSE LET pixel_index == x + SCREEN_WIDTH * y
                        d1 == [ screen |-> d.screen \cup { pixel_index },
                                flip |-> d.flip \/ screen_get(d.screen, pixel_index) ]
                    IN draw_cols_set(d1, x_coord, y_coord, row, pixels, col + 1)
       ELSE draw_cols_set(d, x_coord, y_coord, row, pixels, col + 1)

\* The inner loop of draw over col..7 for one sprite row; d = [screen, flip].
RECURSIVE draw_cols(_, _, _, _, _, _)
draw_cols(d, x_coord, y_coord, row, pixels, col) ==
  IF col >= 8 THEN d
  ELSE IF y_coord + row >= SCREEN_HEIGHT THEN d
  ELSE IF Bit(pixels, 7 - col) # 0
       THEN LET x == x_coord + col
                y == y_coord + row
            IN IF x >= SCREEN_WIDTH THEN d
               ELSE LET pixel_index == x + SCREEN_WIDTH * y
                        d1 == [ screen |-> screen_flip(d.screen, pixel_index),
                                flip |-> d.flip \/ screen_get(d.screen, pixel_index) ]
                    IN draw_cols(d1, x_coord, y_coord, row, pixels, col + 1)
       ELSE draw_cols(d, x_coord, y_coord, row, pixels, col + 1)

\* The outer loop of draw over row..n-1; e carries the screen, flip the local.
RECURSIVE draw_rows(_, _, _, _, _, _)
draw_rows(e, flip, x_coord, y_coord, n, row) ==
  IF row >= n THEN [ e |-> e, flip |-> flip ]
  ELSE IF e.i_reg + row >= U16 /\ overflow_checks
       THEN [ e |-> Panic(e, "overflow"), flip |-> flip ]
  ELSE LET row_addr == (e.i_reg + row) % U16
       IN IF row_addr >= RAM_SIZE
          THEN [ e |-> Panic(e, "index"), flip |-> flip ]
          ELSE LET pixels == ram_get(e.ram, row_addr)
                   d == draw_cols([ screen |-> e.screen, flip |-> flip ],
                                  x_coord, y_coord, row, pixels, 0)
               IN draw_rows([e EXCEPT !.screen = d.screen], d.flip,
                            x_coord, y_coord, n, row + 1)

\* draw that does not clear VF before drawing
draw_keeps_flag(e, x, y, n) ==
  LET x_coord == e.v_reg[x] % SCREEN_WIDTH
      y_coord == e.v_reg[y] % SCREEN_HEIGHT
      r == draw_rows(e, FALSE, x_coord, y_coord, n, 0)
  IN IF r.e.panic # "none" THEN r.e
     ELSE IF r.flip THEN [r.e EXCEPT !.v_reg[15] = 1] ELSE r.e

draw(e, x, y, n) ==
  LET x_coord == e.v_reg[x] % SCREEN_WIDTH
      y_coord == e.v_reg[y] % SCREEN_HEIGHT
      e1 == [e EXCEPT !.v_reg[15] = 0]
      r == draw_rows(e1, FALSE, x_coord, y_coord, n, 0)
  IN IF r.e.panic # "none" THEN r.e
     ELSE IF r.flip THEN [r.e EXCEPT !.v_reg[15] = 1] ELSE r.e

\* DXYN: DRAW
op_DXYN(e, op) == draw(e, digit2(op), digit3(op), digit4(op))

\* EX9E: SKIP if key VX is pressed
op_EX9E(e, op) ==
  LET vx == e.v_reg[digit2(op)]
  IN IF vx >= NUM_KEYS THEN Panic(e, "index")
     ELSE IF e.keys[vx] THEN [e EXCEPT !.pc = e.pc + 2] ELSE e

\* EXA1: SKIP if key VX is not pressed
op_EXA1(e, op) ==
  LET vx == e.v_reg[digit2(op)]
  IN IF vx >= NUM_KEYS THEN Panic(e, "index")
     ELSE IF ~e.keys[vx] THEN [e EXCEPT !.pc = e.pc + 2] ELSE e

\* FX07: VX = delay timer
op_FX07(e, op) == [e EXCEPT !.v_reg[digit2(op)] = e.dt]

\* FX15: delay timer = VX
op_FX15(e, op) == [e EXCEPT !.dt = e.v_reg[digit2(op)]]

\* FX18: sound timer = VX
op_FX18(e, op) == [e EXCEPT !.st = e.v_reg[digit2(op)]]

\* FX1E: I += VX on a u16, then VF = (I >= 0x1000)
op_FX1E(e, op) ==
  LET sum == e.i_reg + e.v_reg[digit2(op)]
  IN IF sum >= U16 /\ overflow_checks THEN Panic(e, "overflow")
     ELSE LET e1 == [e EXCEPT !.i_reg = sum % U16]
              new_vf == IF e1.i_reg >= 4096 THEN 1 ELSE 0
          IN [e1 EXCEPT !.v_reg[15] = new_vf]

\* The key scan of FX0A from index i: the first key that is down, or NUM_KEYS.
RECURSIVE first_key(_, _)
first_key(e, i) ==
  IF i >= NUM_KEYS THEN NUM_KEYS
  ELSE IF e.keys[i] THEN i
  ELSE first_key(e, i + 1)

\* FX0A that stores the last key that is down instead of the first
op_FX0A_last_key(e, op) ==
  LET x == digit2(op)
      down == { k \in 0..(NUM_KEYS - 1) : e.keys[k] }
  IN IF down # {} THEN [e EXCEPT !.v_reg[x] = CHOOSE k \in down : \A j \in down : j <= k]
     ELSE [e EXCEPT !.pc = e.pc - 2]

\* FX0A: wait for a key, store it in VX
op_FX0A(e, op) ==
  LET x == digit2(op)
      i == first_key(e, 0)
      pressed == i < NUM_KEYS
  IN IF pressed THEN [e EXCEPT !.v_reg[x] = i]
     ELSE [e EXCEPT !.pc = e.pc - 2]

\* FX29: I = address of the font character VX & 0xf
op_FX29(e, op) ==
  LET c == e.v_reg[digit2(op)] % 16
  IN [e EXCEPT !.i_reg = FONT_ADDR + c * 5]

\* FX33: the three decimal digits of VX to ram[I], ram[I+1], ram[I+2]
op_FX33(e, op) ==
  LET vx == e.v_reg[digit2(op)]
      d1 == vx \div 100
      d2 == (vx - d1 * 100) \div 10
      d3 == vx % 10
  IN IF e.i_reg >= RAM_SIZE THEN Panic(e, "index")
     ELSE LET e1 == [e EXCEPT !.ram = ram_set(e.ram, e.i_reg, d1)]
          IN IF e.i_reg + 1 >= RAM_SIZE THEN Panic(e1, "index")
             ELSE LET e2 == [e1 EXCEPT !.ram = ram_set(e1.ram, e.i_reg + 1, d2)]
                  IN IF e.i_reg + 2 >= RAM_SIZE THEN Panic(e2, "index")
                     ELSE [e2 EXCEPT !.ram = ram_set(e2.ram, e.i_reg + 2, d3)]

\* the loop of FX55 over 0..x exclusive
RECURSIVE store_regs_exclusive(_, _, _)
store_regs_exclusive(e, x, i) ==
  IF i >= x THEN e
  ELSE IF e.i_reg + i >= RAM_SIZE THEN Panic(e, "index")
  ELSE store_regs_exclusive([e EXCEPT !.ram = ram_set(e.ram, e.i_reg + i, e.v_reg[i])], x, i + 1)

\* The loop of FX55 from i to x.
RECURSIVE store_regs(_, _, _)
store_regs(e, x, i) ==
  IF i > x THEN e
  ELSE IF e.i_reg + i >= RAM_SIZE THEN Panic(e, "index")
  ELSE store_regs([e EXCEPT !.ram = ram_set(e.ram, e.i_reg + i, e.v_reg[i])], x, i + 1)

\* FX55: V0..VX to ram[I..I+X]
op_FX55(e, op) == store_regs(e, digit2(op), 0)

\* The loop of FX65 from i to x.
RECURSIVE load_regs(_, _, _)
load_regs(e, x, i) ==
  IF i > x THEN e
  ELSE IF e.i_reg + i >= RAM_SIZE THEN Panic(e, "index")
  ELSE load_regs([e EXCEPT !.v_reg[i] = ram_get(e.ram, e.i_reg + i)], x, i + 1)

\* FX65: ram[I..I+X] to V0..VX
op_FX65(e, op) == load_regs(e, digit2(op), 0)

\* -------------------------------------------------------- Emu::execute
\* The match of execute, its arms in the order of the source.
execute(e, op, random_num) ==
  LET d1 == digit1(op)
      d2 == digit2(op)
      d3 == digit3(op)
      d4 == digit4(op)
  IN IF d1 = 0 /\ d2 = 0 /\ d3 = 0 /\ d4 = 0 THEN e
     ELSE IF d1 = 0 /\ d2 = 0 /\ d3 = 14 /\ d4 = 0 THEN op_00E0(e, op)
     ELSE IF d1 = 1 THEN op_1NNN(e, op)
     ELSE IF d1 = 2 THEN op_2NNN(e, op)
     ELSE IF d1 = 0 /\ d2 = 0 /\ d3 = 14 /\ d4 = 14 THEN op_00EE(e, op)
     ELSE IF d1 = 3 THEN op_3XNN(e, op)
     ELSE IF d1 = 4 THEN op_4XNN(e, op)
     ELSE IF d1 = 5 /\ d4 = 0 THEN op_5XY0(e, op)
     ELSE IF d1 = 9 /\ d4 = 0 THEN op_9XY0(e, op)
     ELSE IF d1 = 6 THEN op_6XNN(e, op)
     ELSE IF d1 = 7 THEN op_7XNN(e, op)
     ELSE IF d1 = 8 /\ d4 = 0 THEN op_8XY0(e, op)
     ELSE IF d1 = 8 /\ d4 = 1 THEN op_8XY1(e, op)
     ELSE IF d1 = 8 /\ d4 = 2 THEN op_8XY2(e, op)
     ELSE IF d1 = 8 /\ d4 = 3 THEN op_8XY3(e, op)
     ELSE IF d1 = 8 /\ d4 = 4 THEN op_8XY4(e, op)
     ELSE IF d1 = 8 /\ d4 = 5 THEN op_8XY5(e, op)
     ELSE IF d1 = 8 /\ d4 = 7 THEN op_8XY7(e, op)
     ELSE IF d1 = 8 /\ d4 = 6 THEN op_8XY6(e, op)
     ELSE IF d1 = 8 /\ d4 = 14 THEN op_8XYE(e, op)
     ELSE IF d1 = 10 THEN op_ANNN(e, op)
     ELSE IF d1 = 11 THEN op_BNNN(e, op)
     ELSE IF d1 = 12 THEN op_CXNN(e, op, random_num)
     ELSE IF d1 = 13 THEN op_DXYN(e, op)
     ELSE IF d1 = 14 /\ d3 = 9 /\ d4 = 14 THEN op_EX9E(e, op)
     ELSE IF d1 = 14 /\ d3 = 10 /\ d4 = 1 THEN op_EXA1(e, op)
     ELSE IF d1 = 15 /\ d3 = 0 /\ d4 = 7 THEN op_FX07(e, op)
     ELSE IF d1 = 15 /\ d3 = 1 /\ d4 = 5 THEN op_FX15(e, op)
     ELSE IF d1 = 15 /\ d3 = 1 /\ d4 = 8 THEN op_FX18(e, op)
     ELSE IF d1 = 15 /\ d3 = 1 /\ d4 = 14 THEN op_FX1E(e, op)
     ELSE IF d1 = 15 /\ d3 = 0 /\ d4 = 10 THEN op_FX0A(e, op)
     ELSE IF d1 = 15 /\ d3 = 2 /\ d4 = 9 THEN op_FX29(e, op)
     ELSE IF d1 = 15 /\ d3 = 3 /\ d4 = 3 THEN op_FX33(e, op)
     ELSE IF d1 = 15 /\ d3 = 5 /\ d4 = 5 THEN op_FX55(e, op)
     ELSE IF d1 = 15 /\ d3 = 6 /\ d4 = 5 THEN op_FX65(e, op)
     ELSE Panic(e, "unimplemented")

\* ------------------------------------------------------------ Emu::tick
\* fetch, then execute; op is the fetched word (-1: the fetch panicked)
tick(e, random_num) ==
  LET f == fetch(e)
  IN IF f.e.panic # "none" THEN f
     ELSE [ e |-> execute(f.e, f.op, random_num), op |-> f.op ]

\* -------------------------------------------------------- get_screen
\* &self.screen: the slice of the SCREEN_WIDTH * SCREEN_HEIGHT cells
get_screen(e) ==
  [ i \in 0..(SCREEN_WIDTH * SCREEN_HEIGHT - 1) |-> screen_get(e.screen, i) ]

\* ------------------------------------------------- Emu::load, keypress
\* load that clears the program area before it copies
load_clears(e, data) ==
  LET start == START_ADDR
      end == START_ADDR + Len(data)
      below == [ a \in { b \in DOMAIN e.ram : b < start } |-> e.ram[a] ]
  IN IF end > RAM_SIZE THEN Panic(e, "index")
     ELSE [e EXCEPT !.ram = ram_copy(below, start, data)]

\* ram[start..end] is bounds-checked before copy_from_slice writes a byte
load(e, data) ==
  LET start == START_ADDR
      end == START_ADDR + Len(data)
  IN IF end > RAM_SIZE THEN Panic(e, "index")
     ELSE [e EXCEPT !.ram = ram_copy(e.ram, start, data)]

keypress(e, key, down) ==
  IF key >= NUM_KEYS THEN Panic(e, "index")
  ELSE [e EXCEPT !.keys[key] = down]

\* --------------------------------------------------------------- bounds
\* tick() calls explored after construction or a reset
MaxCycles == 7

\* the values random() returns in the model
RandomBytes == { 0, 1, 128, 255 }
\* the keys the host presses and releases
PressedKeys == { 3, 7 }

\* ----------------------------------------------------------------- ROMs
\* A2 50: I = 0x250
RomIndex == << 162, 80 >>

\* 200: 61 02  V1 = 2
\* 202: F1 18  sound timer = V1
\* 204: F5 0A  wait for a key into V5
\* 206: F5 15  delay timer = V5
\* 208: F0 18  sound timer = V0 (0)
\* 20A: 12 00  jump to 200
RomWait == << 97, 2, 241, 24, 245, 10, 245, 21, 240, 24, 18, 0 >>

\* 200: 22 04  call 204
\* 202: 12 02  jump to 202
\* 204: 60 02  V0 = 2
\* 206: F0 15  delay timer = V0
\* 208: F0 18  sound timer = V0
\* 20A: A0 50  I = 0x050
\* 20C: D0 05  draw 5 rows at (V0, V0)
\* 20E: 00 EE  return
RomDirty == << 34, 4, 18, 2, 96, 2, 240, 21, 240, 24, 160, 80, 208, 5, 0, 238 >>

Roms == { RomIndex, RomDirty }

\* the byte values the arithmetic programs load: 0..MaxSample, the values
\* around the sign bit and U8-1-MaxSample..U8-1
MaxSample == 1
ByteSamples ==
  (0..MaxSample) \cup ((127 - MaxSample)..(128 + MaxSample)) \cup ((U8 - 1 - MaxSample)..(U8 - 1))

\* 200: 22 06  call 206
\* 206: 00 EE  return
RomCallRet == << 34, 6, 0, 0, 0, 0, 0, 238 >>

\* 200: 60 a   V0 = a
\* 202: 61 b   V1 = b
\* 204: op
OpProg(a, b, op) == << 96, a, 97, b, op \div 256, op % 256 >>

\* one word or more of every pattern of execute, and words of no pattern
OpWords ==
  { 0, 224, 238, 4616, 8712,              \* 0000 00E0 00EE 1208 2208
    12291, 16387, 20496, 36880,           \* 3003 4003 5010 9010
    24746, 28927,                         \* 60AA 70FF
    32784, 32785, 32786, 32787, 32788,    \* 8010 8011 8012 8013 8014
    32789, 32790, 32791, 32798,           \* 8015 8016 8017 801E
    41506, 45576, 49407, 53269,           \* A222 B208 C0FF D015
    57502, 57505,                         \* E09E E0A1
    61447, 61450, 61461, 61464, 61470,    \* F007 F00A F015 F018 F01E
    61481, 61491, 61781, 61797,           \* F029 F033 F155 F165
    291, 20497, 32792, 57344, 61695 }     \* 0123 5011 8018 E000 F0FF

OpRoms ==
  { OpProg(a, b, op) : a \in { 0, 3, 255 }, b \in { 0, 3 }, op \in OpWords }
    \cup { RomIndex, RomCallRet }

\* 200: 6x a   Vx = a
\* 202: 6y b   Vy = b
\* 204: op     7xnn with nn = b, or 8xy4, 8xy5, 8xy7
\* 206: 12 06  jump to 206
ArithProg(x, y, a, b, kind) ==
  << 96 + x, a, 96 + y, b,
     IF kind = 0 THEN 112 + x ELSE 128 + x,
     IF kind = 0 THEN b ELSE y * 16 + kind,
     18, 6 >>

ArithRoms ==
  { ArithProg(r[1], r[2], a, b, kind) :
      r \in { << 0, 1 >>, << 2, 2 >>, << 0, 15 >>, << 15, 0 >> },
      a \in ByteSamples, b \in ByteSamples, kind \in { 0, 4, 5, 7 } }

\* 200: A2 00  I = 0x200
\* 202: FF 65  V0..VF = the 16 bytes of this program
\* 204: An nn  I = addr
\* 206: Fx 55  V0..Vx to ram[I..I+x]
\* 208: Fx 65  ram[I..I+x] to V0..Vx
\* 20A: 12 0A  jump to 20A
\* 20C: 11 22 33 44  (data)
MemProg(x, addr) ==
  << 162, 0, 255, 101, 160 + (addr \div 256), addr % 256,
     240 + x, 85, 240 + x, 101, 18, 10, 17, 34, 51, 68 >>

MemRoms ==
  { MemProg(x, addr) : x \in 0..15, addr \in { 0, 80, 504, 768 } }
    \cup { MemProg(x, RAM_SIZE - 1 - x) : x \in 0..15 }
    \cup { MemProg(x, RAM_SIZE - x) : x \in 0..15 }

\* 200: 6x a   Vx = a
\* 202: 6y b   Vy = b
\*      A0 5A  I = 0x05A (glyph 2)      } with first = TRUE
\*      Dx y5  draw it at (Vx, Vy)      }
\*      An nn  I = addr
\*      Dx yn  draw n rows at (Vx, Vy)
\*      Dx yn  and again
DrawProg(first, x, y, a, b, addr, n) ==
  << 96 + x, a, 96 + y, b >>
    \o (IF first THEN << 160, 90, 208 + x, y * 16 + 5 >> ELSE << >>)
    \o << 160 + (addr \div 256), addr % 256, 208 + x, y * 16 + n, 208 + x, y * 16 + n >>

DrawRoms ==
  { DrawProg(first, r[1], r[2], a, b, addr, n) :
      first \in BOOLEAN,
      r \in { << 0, 1 >>, << 15, 1 >>, << 0, 15 >> },
      a \in { 0, 60, 63, 124, 255 },
      b \in { 0, 28, 31, 62, 255 },
      addr \in { 80, 512 },
      n \in { 0, 1, 5, 15 } }

\* the address of the i-th call of StackProg
CallSite(i) == START_ADDR + 4 * i

\* the calls i..k-1 of StackProg and its last return
RECURSIVE CallChain(_, _)
CallChain(i, k) ==
  IF i >= k THEN << 0, 238 >>
  ELSE << 32 + (CallSite(i + 1) \div 256), CallSite(i + 1) % 256, 0, 238 >>
         \o CallChain(i + 1, k)

\* k nested calls, then k + 1 returns:
\* 200: 22 04  call 204       202: 00 EE  return
\* 204: 22 08  call 208       206: 00 EE  return
\* ...
\* 200+4k: 00 EE  return
StackProg(k) == CallChain(0, k)

\* 200: 22 00  call 200
RomRecurse == << 34, 0 >>

\* ticks explored in the call / return programs
MaxDepth == 36

StackRoms ==
  { StackProg(k) : k \in 0..(STACK_SIZE + 1) } \cup { RomRecurse, RomCallRet }

\* RomDirty and zeros up to the last byte of memory, which is FF
RomFull ==
  [ i \in 1..(RAM_SIZE - START_ADDR) |->
      IF i <= Len(RomDirty) THEN RomDirty[i]
      ELSE IF i = RAM_SIZE - START_ADDR THEN 255 ELSE 0 ] \o << >>

\* one byte more than fits
RomOver == RomFull \o << 1 >>

LoadRoms == { << >>, RomIndex, RomDirty, RomFull, RomOver }

\* ticks explored after the load of a one-word program
DecodeTicks == 1

\* the programs of the call / return runs that fit MaxCycles ticks
CallRoms == { StackProg(3), RomDirty }

\* 200: 60 FF  V0 = 255
\* 202: 61 b   V1 = b
\* 204: An nn  I = addr
\* 206: F0 55  ram[I] = V0
\* 208: D2 1n  draw n rows at (V2, V1), V2 = 0
ClipProg(b, addr, n) ==
  << 96, 255, 97, b, 160 + (addr \div 256), addr % 256, 240, 85, 208 + 2, 16 + n >>

\* sprites at the end of memory, at and near the bottom row
ClipRoms ==
  { ClipProg(b, addr, n) :
      b \in { 0, 29, 30, 31, 63 },
      addr \in { RAM_SIZE - 16, RAM_SIZE - 3, RAM_SIZE - 2, RAM_SIZE - 1 },
      n \in { 0, 1, 2, 3, 15 } }

\* the programs of ArithProg for the opcodes that write VF, with x or y 15
FlagRoms ==
  { ArithProg(r[1], r[2], a, b, kind) :
      r \in { << 0, 1 >>, << 15, 1 >>, << 1, 15 >>, << 15, 15 >>, << 3, 3 >> },
      a \in ByteSamples, b \in ByteSamples, kind \in { 4, 5, 7, 6, 14 } }

\* 200: A0 50  I = 0x050 (glyph 0)
\* 202: D0 05  draw it at (V0, V0) = (0, 0)
\* 204: 6F 07  VF = 7
\* 206: op
ScreenProg(op) == << 160, 80, 208, 5, 111, 7, op \div 256, op % 256 >>

ScreenRoms == { ScreenProg(op) : op \in OpWords }

\* the ticks of a run of ScreenProg: its four instructions
ScreenTicks == 4

\* 200: 6x bb  Vx = b
\* 202: AF FF  I = 0xFFF
\* 204: Fx 1E  I += Vx
\* 206: 12 04  jump to 0x204
AddProg(x, b) == << 96 + x, b, 175, 255, 240 + x, 30, 18, 4 >>

AddRoms == { AddProg(x, b) : x \in { 0, 7, 15 }, b \in { 128, 255 } }

\* the ticks of a run of AddProg: with b = 255 the 241st Fx1E, at tick 483,
\* is the first whose sum passes 0xFFFF
AddTicks == 484

\* -------------------------------------------------------------- actions
\* The record of a call: its name, the word tick fetched, its arguments.
Call(name, op, key, down, data) ==
  [ name |-> name, op |-> op, key |-> key, down |-> down, data |-> data ]

\* The timers as last written (d, s) and the tick_timers() calls since, each
\* counted up to the value written (dk <= d, sk <= s): past that many calls
\* the timer has run out.
TimerLog(d, dk, s, sk) == [ d |-> d, dk |-> dk, s |-> s, sk |-> sk ]

\* The 2nnn (calls) and 00EE (rets) that ticks have executed, and the
\* addresses of the 2nnn instructions not yet returned from, oldest first.
CallLog(calls, rets, sites) == [ calls |-> calls, rets |-> rets, sites |-> sites ]

IsFX15(op) == digit1(op) = 15 /\ digit3(op) = 1 /\ digit4(op) = 5
IsFX18(op) == digit1(op) = 15 /\ digit3(op) = 1 /\ digit4(op) = 8

Init ==
  /\ pc = Emu_new.pc
  /\ ram = Emu_new.ram
  /\ screen = Emu_new.screen
  /\ keys = Emu_new.keys
  /\ v_reg = Emu_new.v_reg
  /\ i_reg = Emu_new.i_reg
  /\ stack = Emu_new.stack
  /\ sp = Emu_new.sp
  /\ dt = Emu_new.dt
  /\ st = Emu_new.st
  /\ panic = Emu_new.panic
  /\ stdout = Emu_new.stdout
  /\ overflow_checks \in BOOLEAN
  /\ call = Call("new", -1, -1, FALSE, << >>)
  /\ cycles = 0
  /\ timer_log = TimerLog(0, 0, 0, 0)
  /\ call_log = CallLog(0, 0, << >>)
  /\ old = [ e |-> Emu_new, call |-> Call("none", -1, -1, FALSE, << >>),
             timer_log |-> TimerLog(0, 0, 0, 0), call_log |-> CallLog(0, 0, << >>) ]

\* a panic ends the process: no call follows it
Running == panic = "none"

\* the core as a call finds it: nothing printed yet
Begin == [Cur EXCEPT !.stdout = << >>]

Remember ==
  old' = [ e |-> Cur, call |-> call, timer_log |-> timer_log, call_log |-> call_log ]

\* crisp8.load(&buff)
Load(data) ==
  /\ Running
  /\ Set(load(Begin, data))
  /\ call' = Call("load", -1, -1, FALSE, data)
  /\ Remember
  /\ UNCHANGED << overflow_checks, cycles, timer_log, call_log >>

\* random() is called by CXNN alone
RandomFor(e) ==
  IF e.pc < RAM_SIZE /\ digit1(ram_get(e.ram, e.pc) * 256) = 12 THEN RandomBytes ELSE { 0 }

\* crisp8.tick(), while fewer than limit ticks have run
TickWithin(limit) ==
  /\ Running
  /\ cycles < limit
  /\ \E random_num \in RandomFor(Begin) :
       LET r == tick(Begin, random_num)
           done == r.e.panic = "none"
       IN /\ Set(r.e)
          /\ call' = Call("tick", r.op, -1, FALSE, << >>)
          /\ timer_log' =
               IF done /\ IsFX15(r.op)
               THEN [timer_log EXCEPT !.d = r.e.dt, !.dk = 0]
               ELSE IF done /\ IsFX18(r.op)
               THEN [timer_log EXCEPT !.s = r.e.st, !.sk = 0]
               ELSE timer_log
          /\ call_log' =
               IF done /\ digit1(r.op) = 2
               THEN [call_log EXCEPT !.calls = @ + 1, !.sites = Append(@, pc)]
               ELSE IF done /\ r.op = 238
               THEN [call_log EXCEPT !.rets = @ + 1, !.sites = SubSeq(@, 1, Len(@) - 1)]
               ELSE call_log
  /\ cycles' = cycles + 1
  /\ Remember
  /\ UNCHANGED overflow_checks

\* crisp8.tick()
Tick == TickWithin(MaxCycles)

\* crisp8.tick_timers()
TickTimers ==
  /\ Running
  /\ Set(tick_timers(Begin))
  /\ call' = Call("tick_timers", -1, -1, FALSE, << >>)
  /\ timer_log' =
       [timer_log EXCEPT
          !.dk = IF @ < timer_log.d THEN @ + 1 ELSE @,
          !.sk = IF @ < timer_log.s THEN @ + 1 ELSE @]
  /\ Remember
  /\ UNCHANGED << overflow_checks, cycles, call_log >>

\* crisp8.keypress(k, down)
Keypress(key, down) ==
  /\ Running
  /\ Set(keypress(Begin, key, down))
  /\ call' = Call("keypress", -1, key, down, << >>)
  /\ Remember
  /\ UNCHANGED << overflow_checks, cycles, timer_log, call_log >>

\* crisp8.reset()
Reset ==
  /\ Running
  /\ Set(reset(Begin))
  /\ call' = Call("reset", -1, -1, FALSE, << >>)
  /\ cycles' = 0
  /\ timer_log' = TimerLog(0, 0, 0, 0)
  /\ call_log' = CallLog(0, 0, << >>)
  /\ Remember
  /\ UNCHANGED overflow_checks

\* crisp8.get_screen(): the slice it returns is the data of the call record
GetScreen ==
  /\ Running
  /\ Set(Begin)
  /\ call' = Call("get_screen", -1, -1, FALSE, get_screen(Begin))
  /\ Remember
  /\ UNCHANGED << overflow_checks, cycles, timer_log, call_log >>

\* main: Emu::new(), then crisp8.load(&buff) once, before the loop
Boot(data) ==
  /\ call.name = "new"
  /\ Load(data)

\* main's loop, first frame: the key events are polled before the frame's ticks
KeyEvent(key, down) ==
  /\ call.name # "new"
  /\ cycles = 0
  /\ Keypress(key, down)

\* main's loop: for _ in 0..TICKS_PER_FRAME { crisp8.tick() }
FrameTick ==
  /\ call.name # "new"
  /\ cycles < TICKS_PER_FRAME
  /\ Tick

\* ------------------------------------------------------- specifications
\* The core as a library: its public calls in any order.
Next ==
  \/ \E data \in Roms : Load(data)
  \/ Tick
  \/ TickTimers
  \/ \E key \in PressedKeys, down \in BOOLEAN : Keypress(key, down)
  \/ Reset

Spec == Init /\ [][Next]_vars

\* The desktop's run of RomWait: key events, ticks and timer ticks after the
\* one load.
NextWait ==
  \/ Boot(RomWait)
  \/ Tick
  \/ TickTimers
  \/ \E key \in PressedKeys, down \in BOOLEAN : Keypress(key, down)

SpecWait == Init /\ [][NextWait]_vars

\* The desktop's first frame of a program that executes one opcode, with key
\* events.
NextOps ==
  \/ \E data \in OpRoms : Boot(data)
  \/ FrameTick
  \/ \E key \in PressedKeys, down \in BOOLEAN : KeyEvent(key, down)

SpecOps == Init /\ [][NextOps]_vars

\* The desktop's first frame of the arithmetic programs.
NextArith ==
  \/ \E data \in ArithRoms : Boot(data)
  \/ FrameTick

SpecArith == Init /\ [][NextArith]_vars

\* The desktop's first frame of the register store / load programs.
NextMem ==
  \/ \E data \in MemRoms : Boot(data)
  \/ FrameTick

SpecMem == Init /\ [][NextMem]_vars

\* The desktop's first frame of the drawing programs.
NextDraw ==
  \/ \E data \in DrawRoms : Boot(data)
  \/ FrameTick

SpecDraw == Init /\ [][NextDraw]_vars

\* main's loop on a call / return program, as many frames as MaxDepth ticks
DeepTick ==
  /\ call.name # "new"
  /\ TickWithin(MaxDepth)

\* The desktop's run of the call / return programs.
NextStack ==
  \/ \E data \in StackRoms : Boot(data)
  \/ DeepTick

SpecStack == Init /\ [][NextStack]_vars

\* The core as a library, loaded again at any time.
NextLoad ==
  \/ \E data \in LoadRoms : Load(data)
  \/ Tick
  \/ Keypress(3, TRUE)

SpecLoad == Init /\ [][NextLoad]_vars

\* main's loop on a one-word program: its first tick
DecodeTick ==
  /\ call.name # "new"
  /\ TickWithin(DecodeTicks)

\* main: the load of a one-word program, any 16-bit word
BootWord ==
  /\ call.name = "new"
  /\ \E hi \in 0..(U8 - 1), lo \in 0..(U8 - 1) : Boot(<< hi, lo >>)

\* The desktop's first tick of every one-word program.
NextDecode ==
  \/ BootWord
  \/ DecodeTick

SpecDecode == Init /\ [][NextDecode]_vars

\* The core as a library on the call / return programs.
NextCalls ==
  \/ \E data \in CallRoms : Load(data)
  \/ Tick
  \/ TickTimers
  \/ Keypress(3, TRUE)
  \/ Reset

SpecCalls == Init /\ [][NextCalls]_vars

\* The desktop's first frame of the programs that draw from the end of memory.
NextClip ==
  \/ \E data \in ClipRoms : Boot(data)
  \/ FrameTick

SpecClip == Init /\ [][NextClip]_vars

\* The desktop's first frame of the programs that write VF.
NextFlag ==
  \/ \E data \in FlagRoms : Boot(data)
  \/ FrameTick

SpecFlag == Init /\ [][NextFlag]_vars

ScreenTick ==
  /\ call.name # "new"
  /\ TickWithin(ScreenTicks)

\* The programs that draw and then execute one opcode, with a key event,
\* timer ticks and a second load in between, and the screen read as main's
\* draw_screen does, after the ticks or the timer tick of a frame.
NextScreen ==
  \/ \E data \in ScreenRoms : Boot(data)
  \/ ScreenTick
  \/ TickTimers
  \/ Keypress(3, TRUE)
  \/ call.name # "new" /\ Load(RomIndex)
  \/ call.name \in { "tick", "tick_timers" } /\ GetScreen

SpecScreen == Init /\ [][NextScreen]_vars

AddTick ==
  /\ call.name # "new"
  /\ TickWithin(AddTicks)

\* The programs that add a register to the index register in a loop.
NextAdd ==
  \/ \E data \in AddRoms : Boot(data)
  \/ AddTick

SpecAdd == Init /\ [][NextAdd]_vars

\* --------------------------------------------------------------- claims
IsFX0A(op) == digit1(op) = 15 /\ digit3(op) = 0 /\ digit4(op) = 10

\* the last call was tick(), and it returned
Ticked == call.name = "tick" /\ panic = "none"

\* the fields of the core other than the timers and the registers
SameBut(e, f, fields) ==
  /\ "pc" \in fields \/ e.pc = f.pc
  /\ "ram" \in fields \/ e.ram = f.ram
  /\ "screen" \in fields \/ e.screen = f.screen
  /\ "keys" \in fields \/ e.keys = f.keys
  /\ "v_reg" \in fields \/ e.v_reg = f.v_reg
  /\ "i_reg" \in fields \/ e.i_reg = f.i_reg
  /\ "stack" \in fields \/ e.stack = f.stack
  /\ "sp" \in fields \/ e.sp = f.sp
  /\ "dt" \in fields \/ e.dt = f.dt
  /\ "st" \in fields \/ e.st = f.st

\* The construction-time state as the claim lists it (a fact about Emu_new).
ConstructionState ==
  /\ \A a \in 0..4095 :
       ram_get(Emu_new.ram, a) = IF a >= 80 /\ a <= 159 THEN FONTSET[a - 79] ELSE 0
  /\ Emu_new.pc = 512
  /\ Emu_new.sp = 0
  /\ \A i \in 0..15 : Emu_new.stack[i] = 0 /\ Emu_new.v_reg[i] = 0 /\ ~Emu_new.keys[i]
  /\ Emu_new.i_reg = 0
  /\ Emu_new.dt = 0
  /\ Emu_new.st = 0
  /\ \A p \in 0..2047 : ~screen_get(Emu_new.screen, p)

\* C1: after any sequence of calls, reset() leaves the core in exactly the
\* state construction produces: memory 0 but for the font at 0x050..0x09F,
\* pc = 0x200, empty stack, registers, index, timers, keys and framebuffer
\* all cleared.
C1_ResetRestoresConstruction ==
  call.name = "reset" =>
    /\ SameBut(Cur, Emu_new, {})
    /\ panic = "none"
    /\ ConstructionState

\* C1's case: reset() of a core whose every field a program, the host and
\* the timers had changed.
C1_Witness ==
  /\ call.name = "reset"
  /\ old.e.pc # 512
  /\ ram_get(old.e.ram, 512) # 0
  /\ old.e.screen # {}
  /\ old.e.keys[3]
  /\ old.e.v_reg[0] # 0
  /\ old.e.i_reg # 0
  /\ old.e.sp = 1
  /\ old.e.stack[0] # 0
  /\ old.e.dt = 1
  /\ old.e.st = 2

NoKeyDown(e) == \A k \in 0..15 : ~e.keys[k]
LowestKeyDown(e) == CHOOSE k \in 0..15 : e.keys[k] /\ \A j \in 0..15 : e.keys[j] => k <= j

\* C3: a tick() that fetches Fx0A with no key down returns with the core as
\* it was before the call; with a key down it stores the lowest index that is
\* down into Vx and leaves pc past the instruction, changing nothing else;
\* tick_timers() and keypress() move neither pc nor the program.
C3_BlockForKey ==
  /\ (Ticked /\ IsFX0A(call.op) /\ NoKeyDown(old.e)) => SameBut(Cur, old.e, {})
  /\ (Ticked /\ IsFX0A(call.op) /\ ~NoKeyDown(old.e)) =>
       /\ v_reg = [old.e.v_reg EXCEPT ![digit2(call.op)] = LowestKeyDown(old.e)]
       /\ pc = old.e.pc + 2
       /\ SameBut(Cur, old.e, {"pc", "v_reg"})
  /\ call.name = "tick" /\ IsFX0A(call.op) => panic = "none"
  /\ call.name \in {"tick_timers", "keypress"} =>
       /\ pc = old.e.pc
       /\ ram = old.e.ram
       /\ v_reg = old.e.v_reg

\* C3's case: Fx0A had waited (it is the third instruction and more than
\* three ticks have run), the timers ran meanwhile, keys 3 and 7 are both down
\* and the tick stored 3.
C3_Witness ==
  /\ Ticked
  /\ IsFX0A(call.op)
  /\ old.e.keys[3]
  /\ old.e.keys[7]
  /\ v_reg[5] = 3
  /\ pc = old.e.pc + 2
  /\ cycles > 3
  /\ st = 0

Max0(n) == IF n > 0 THEN n ELSE 0

\* C9: k tick_timers() calls after a timer was written with d leave it at
\* max(d - k, 0), however many tick() and keypress() calls came between (the
\* log counts k up to d); each tick_timers() call takes 1 from each timer
\* that is not 0 and changes nothing else; tick() other than Fx15 / Fx18 and
\* keypress() leave the timers alone.
C9_TimersCountHostTicks ==
  /\ panic = "none" => dt = Max0(timer_log.d - timer_log.dk)
  /\ panic = "none" => st = Max0(timer_log.s - timer_log.sk)
  /\ call.name = "tick_timers" =>
       /\ dt = Max0(old.e.dt - 1)
       /\ st = Max0(old.e.st - 1)
       /\ SameBut(Cur, old.e, {"dt", "st"})
       /\ panic = "none"
  /\ (Ticked /\ ~IsFX15(call.op)) => dt = old.e.dt
  /\ (Ticked /\ ~IsFX18(call.op)) => st = old.e.st
  /\ call.name = "keypress" => dt = old.e.dt /\ st = old.e.st

\* C9's case: the delay timer was written with 3, ticks of the program ran
\* while it counted down, it reached 0 and a further tick_timers() left it 0.
C9_Witness ==
  /\ call.name = "tick_timers"
  /\ timer_log.d = 3
  /\ timer_log.dk = 3
  /\ old.e.dt = 0
  /\ dt = 0
  /\ old.call.name = "tick_timers"
  /\ cycles > 5

\* C10: a call prints the notification exactly when it is tick_timers() and
\* the sound timer was 1 before it (and is 0 after it); that is the v-th
\* tick_timers() call after the sound timer was last written with v >= 1.
C10_SoundStopNotification ==
  /\ stdout \in { << >>, << "Boop!" >> }
  /\ stdout = << "Boop!" >> <=> (call.name = "tick_timers" /\ old.e.st = 1)
  /\ stdout = << "Boop!" >> => st = 0
  /\ stdout = << "Boop!" >> <=>
       /\ call.name = "tick_timers"
       /\ timer_log.s >= 1
       /\ old.timer_log.sk = timer_log.s - 1

\* C10's case: Fx18 wrote 2 and the second tick_timers() after it printed.
C10_Witness ==
  /\ stdout = << "Boop!" >>
  /\ call.name = "tick_timers"
  /\ timer_log.s = 2
  /\ timer_log.sk = 2
  /\ old.e.dt > 1

IsSkip(op) ==
  \/ digit1(op) \in {3, 4}
  \/ digit1(op) \in {5, 9} /\ digit4(op) = 0
  \/ digit1(op) = 14 /\ NN(op) \in {158, 161}

\* the condition of a skip opcode, on the core before the instruction
SkipHolds(e, op) ==
  LET vx == e.v_reg[digit2(op)]
      vy == e.v_reg[digit3(op)]
  IN CASE digit1(op) = 3 -> vx = NN(op)
       [] digit1(op) = 4 -> vx # NN(op)
       [] digit1(op) = 5 -> vx = vy
       [] digit1(op) = 9 -> vx # vy
       [] digit1(op) = 14 /\ NN(op) = 158 -> e.keys[vx]
       [] digit1(op) = 14 /\ NN(op) = 161 -> ~e.keys[vx]

\* the pc the claim gives after a tick() that fetched op on core e
ClaimedPc(e, op) ==
  IF digit1(op) \in {1, 2} THEN NNN(op)
  ELSE IF op = 238 THEN e.stack[e.sp - 1]
  ELSE IF digit1(op) = 11 THEN e.v_reg[0] + NNN(op)
  ELSE IF IsSkip(op) THEN (IF SkipHolds(e, op) THEN e.pc + 4 ELSE e.pc + 2)
  ELSE IF IsFX0A(op) /\ NoKeyDown(e) THEN e.pc
  ELSE e.pc + 2

\* C2: after a tick() that returned, pc is the target of a jump, call,
\* return or Bnnn, p + 4 or p + 2 after a skip opcode by its condition, p
\* after Fx0A with no key down, and p + 2 after any other opcode; a fresh core
\* loaded with A2 50 has I = 0x250 and pc = 0x202 after one tick().
C2_ProgramCounter ==
  /\ Ticked => pc = ClaimedPc(old.e, call.op)
  /\ (/\ call.name = "tick"
      /\ old.call.name = "load"
      /\ old.call.data = << 162, 80 >>
      /\ SameBut(old.e, Emu_new, {"ram"}))
     => (panic = "none" /\ i_reg = 592 /\ pc = 514)

\* C2's case: ExA1 on a key that is up skipped the next instruction.
C2_Witness ==
  /\ Ticked
  /\ call.op = 57505
  /\ old.e.v_reg[0] = 3
  /\ ~old.e.keys[3]
  /\ old.e.keys[7]
  /\ pc = old.e.pc + 4

IsDraw(op) == digit1(op) = 13

\* the origin of the draw op on core e
OriginX(e, op) == e.v_reg[digit2(op)] % 64
OriginY(e, op) == e.v_reg[digit3(op)] % 32

\* the pixels the two framebuffers differ in
Changed(s, t) == (s \ t) \cup (t \ s)

\* C4: a second Dxyn of the same sprite bytes at the same origin leaves the
\* framebuffer as it was before the first, and sets VF when the first had
\* turned a pixel on.  (old.e is the core before the first draw, the unprimed
\* variables the core between the two, the primed ones the core after.)
C4_DrawTwiceRestores ==
  [][ (/\ Ticked
       /\ IsDraw(call.op)
       /\ call'.name = "tick"
       /\ panic' = "none"
       /\ IsDraw(call'.op)
       /\ digit4(call'.op) = digit4(call.op)
       /\ i_reg = old.e.i_reg
       /\ ram = old.e.ram
       /\ OriginX(Cur, call'.op) = OriginX(old.e, call.op)
       /\ OriginY(Cur, call'.op) = OriginY(old.e, call.op))
      => (/\ screen' = old.e.screen
          /\ (screen \ old.e.screen # {}) => v_reg'[15] = 1) ]_vars

\* C4's case: the second of two equal draws on a framebuffer that was not
\* blank, where the first had turned pixels on and others off.
C4_Witness ==
  /\ Ticked
  /\ IsDraw(call.op)
  /\ old.call.name = "tick"
  /\ old.call.op = call.op
  /\ digit2(call.op) # 15
  /\ digit3(call.op) # 15
  /\ screen \ old.e.screen # {}
  /\ old.e.screen \ screen # {}
  /\ v_reg[15] = 1
  /\ old.e.v_reg[15] = 1

\* the pixels the claim has the draw op flip, on core e
ClaimedFlips(e, op) ==
  LET x0 == OriginX(e, op)
      y0 == OriginY(e, op)
      n == digit4(op)
  IN { (x0 + c) + 64 * (y0 + r) : << c, r >> \in
         { cr \in (0..7) \X (0..(n - 1)) :
             /\ x0 + cr[1] <= 63
             /\ y0 + cr[2] <= 31
             /\ Bit(ram_get(e.ram, e.i_reg + cr[2]), 7 - cr[1]) = 1 } }

\* C5: a draw flips exactly the pixels (x0 + c, y0 + r) of the box that
\* starts at the wrapped origin and is cut at column 63 and row 31, for the
\* bits 7 - c that are set in ram[I + r]; nothing wraps to the other edge.
C5_DrawClips ==
  (Ticked /\ IsDraw(call.op)) =>
    /\ Changed(screen, old.e.screen) = ClaimedFlips(old.e, call.op)
    /\ \A p \in Changed(screen, old.e.screen) :
         /\ p % 64 >= OriginX(old.e, call.op)
         /\ p \div 64 >= OriginY(old.e, call.op)
         /\ p \div 64 < 32

\* C5's case: a sprite at x0 = 60 one row of which has a set bit past column
\* 63 (dropped) and a later row of which was drawn.
C5_Witness ==
  /\ Ticked
  /\ IsDraw(call.op)
  /\ OriginX(old.e, call.op) = 60
  /\ \E r \in 0..14 :
       /\ ram_get(old.e.ram, old.e.i_reg + r) % 16 # 0
       /\ \E p \in Changed(screen, old.e.screen) :
            p \div 64 > OriginY(old.e, call.op) + r

\* glyph 0 (F0 90 90 90 F0) at the origin (0, 0)
Glyph0 == { 0, 1, 2, 3, 64, 67, 128, 131, 192, 195, 256, 257, 258, 259 }

\* C6: after a draw VF is 1 if a pixel that was on is now off and 0 if none
\* is, whatever VF held and whichever registers give the origin; on a fresh
\* core with I = 0x050, 5 rows at (0, 0) give glyph 0 and VF = 0.
C6_CollisionFlag ==
  /\ (Ticked /\ IsDraw(call.op)) =>
       v_reg[15] = (IF old.e.screen \ screen # {} THEN 1 ELSE 0)
  /\ (/\ call.name = "tick"
      /\ IsDraw(call.op)
      /\ digit4(call.op) = 5
      /\ SameBut(old.e, Emu_new, {"pc", "ram", "i_reg"})
      /\ old.e.i_reg = 80
      /\ \A a \in 80..84 : ram_get(old.e.ram, a) = ram_get(Emu_new.ram, a))
     => (panic = "none" /\ screen = Glyph0 /\ v_reg[15] = 0)

\* C6's case: a draw whose x origin is VF, which held 1 from the draw before
\* it, drew at column 1 and turned pixels off.
C6_Witness ==
  /\ Ticked
  /\ IsDraw(call.op)
  /\ digit2(call.op) = 15
  /\ old.e.v_reg[15] = 1
  /\ \E p \in Changed(screen, old.e.screen) : p % 64 = 1
  /\ \A p \in Changed(screen, old.e.screen) : p % 64 >= 1
  /\ old.e.screen \ screen # {}
  /\ v_reg[15] = 1

IsFX55(op) == digit1(op) = 15 /\ NN(op) = 85
IsFX65(op) == digit1(op) = 15 /\ NN(op) = 101

\* C7: Fx55 and then Fx65 with I + x <= 4095 leave V0..Vx as before the
\* Fx55 with ram[I + i] = Vi, the registers above x and the memory outside
\* I..I+x unchanged, and I the same after each.  (old.e is the core before
\* the Fx55, the unprimed variables the core after it, the primed ones the
\* core after the Fx65.)
C7_StoreThenLoad ==
  [][ (/\ call.name = "tick"
       /\ IsFX55(call.op)
       /\ old.e.i_reg + digit2(call.op) <= 4095
       /\ call'.name = "tick"
       /\ IsFX65(call'.op)
       /\ digit2(call'.op) = digit2(call.op))
      => (LET x == digit2(call.op)
              I == old.e.i_reg
              before == old.e
          IN /\ panic = "none" /\ panic' = "none"
             /\ i_reg = I /\ i_reg' = I
             /\ v_reg = before.v_reg /\ v_reg' = before.v_reg
             /\ \A i \in 0..x : ram_get(ram, I + i) = before.v_reg[i]
             /\ ram' = ram
             /\ \A a \in (0..4095) \ (I..(I + x)) :
                  ram_get(ram, a) = ram_get(before.ram, a)) ]_vars

\* C7's case: F955 then F965 with I + 9 = 4095, ten registers, not all
\* equal, now in the last ten bytes of memory.
C7_Witness ==
  /\ Ticked
  /\ call.op = 63845
  /\ old.call.op = 63829
  /\ i_reg = 4086
  /\ v_reg[0] # v_reg[9]
  /\ ram_get(ram, 4095) = v_reg[9]
  /\ ram_get(ram, 4086) = v_reg[0]

\* C8: 7xnn adds nn to Vx modulo 256 and changes no other register; with
\* x # 15, 8xy4 / 8xy5 / 8xy7 leave (Vx + Vy), (Vx - Vy), (Vy - Vx) modulo
\* 256 in Vx and carry / no borrow in VF, from the values before the
\* instruction; none of the four fails.
C8_WrappingArithmetic ==
  LET op == call.op
      x == digit2(op)
      vx == old.e.v_reg[x]
      vy == old.e.v_reg[digit3(op)]
      Result(r, flag) ==
        /\ panic = "none"
        /\ v_reg = [[old.e.v_reg EXCEPT ![x] = r % 256] EXCEPT ![15] = IF flag THEN 1 ELSE 0]
  IN call.name = "tick" =>
       /\ digit1(op) = 7 =>
            /\ panic = "none"
            /\ v_reg = [old.e.v_reg EXCEPT ![x] = (vx + NN(op)) % 256]
       /\ (digit1(op) = 8 /\ digit4(op) = 4 /\ x # 15) => Result(vx + vy, vx + vy > 255)
       /\ (digit1(op) = 8 /\ digit4(op) = 5 /\ x # 15) => Result(vx - vy, vx >= vy)
       /\ (digit1(op) = 8 /\ digit4(op) = 7 /\ x # 15) => Result(vy - vx, vy >= vx)

\* C8's case: 8xy7 with Vy < Vx borrowed: Vx wrapped and VF = 0.
C8_Witness ==
  /\ Ticked
  /\ digit1(call.op) = 8
  /\ digit4(call.op) = 7
  /\ digit2(call.op) = 0
  /\ old.e.v_reg[0] = 255
  /\ old.e.v_reg[digit3(call.op)] = 1
  /\ v_reg[0] = 2
  /\ v_reg[15] = 0

IsCall(op) == digit1(op) = 2
IsRet(op) == op = 238

C11_WitnessEmpty ==
  /\ call.name = "tick"
  /\ IsRet(call.op)
  /\ old.e.sp = 0
  /\ cycles = 33
  /\ panic # "none"

\* C12: load of n <= 3584 bytes leaves ram[0x200 + i] = data[i] for i < n,
\* every other byte of memory and every other field as before; load of more
\* fails and leaves memory and every field as before.
C12_Load ==
  call.name = "load" =>
    LET n == Len(call.data)
    IN IF n <= 3584
       THEN /\ panic = "none"
            /\ \A a \in 0..4095 :
                 ram_get(ram, a) =
                   IF a >= 512 /\ a < 512 + n THEN call.data[a - 511]
                   ELSE ram_get(old.e.ram, a)
            /\ SameBut(Cur, old.e, { "ram" })
       ELSE /\ panic = "index"
            /\ SameBut(Cur, old.e, {})

\* C12's case: two bytes loaded over a longer program that had run: its
\* bytes from 0x202 stay, and so do the stack, the timers and the pixels.
C12_Witness ==
  /\ call.name = "load"
  /\ call.data = RomIndex
  /\ panic = "none"
  /\ ram_get(ram, 512) = 162
  /\ ram_get(old.e.ram, 512) = 34
  /\ ram_get(ram, 526) = 0 /\ ram_get(ram, 527) = 238
  /\ sp = 1
  /\ dt = 2
  /\ screen # {}
  /\ keys[3]

\* C12's other cases: 3584 bytes fill memory to its last byte, 3585 fail.
C12_WitnessFull ==
  /\ call.name = "load"
  /\ Len(call.data) = 3584
  /\ ram_get(ram, 4095) = 255
  /\ panic = "none"

C12_WitnessOver ==
  /\ call.name = "load"
  /\ Len(call.data) = 3585
  /\ ram_get(old.e.ram, 512) = 34
  /\ panic = "index"

\* the words the claim lists as unknown, by their hexadecimal digits
ClaimedUnknown(op) ==
  LET first == op \div 4096
      last == op % 16
      kk == op % 256
  IN \/ first = 0 /\ op \notin { 0, 224, 238 }
     \/ first \in { 5, 9 } /\ last # 0
     \/ first = 8 /\ last \in { 8, 9, 10, 11, 12, 13, 15 }
     \/ first = 14 /\ kk \notin { 158, 161 }
     \/ first = 15 /\ kk \notin { 7, 10, 21, 24, 30, 41, 51, 85, 101 }

\* the arms of the match whose pattern the word matches
ArmsMatching(op) == { i \in 1..Len(Patterns) : MatchesArm(op, Patterns[i]) }

\* C13: a tick that fetched a word fails with the unknown-opcode panic
\* exactly when the word is one the claim lists, and then no pattern of the
\* match matches it; every other word matches exactly one pattern.
C13_DecodeTotal ==
  (call.name = "tick" /\ call.op >= 0) =>
    /\ panic = "unimplemented" <=> ClaimedUnknown(call.op)
    /\ Cardinality(ArmsMatching(call.op)) = (IF ClaimedUnknown(call.op) THEN 0 ELSE 1)

\* C13's case: E09F, one bit from Ex9E, is unknown.
C13_Witness ==
  /\ call.name = "tick"
  /\ call.op = 57503
  /\ panic = "unimplemented"
  /\ pc = 514

\* C13's other case: E09E is recognised.
C13_WitnessKnown ==
  /\ call.name = "tick"
  /\ call.op = 57502
  /\ panic = "none"
  /\ pc = 514

IsEX9E(op) == op \div 4096 = 14 /\ op % 256 = 158
IsEXA1(op) == op \div 4096 = 14 /\ op % 256 = 161

\* key number k is down on core e; no key has a number above 15
KeyDown(e, k) == k \in 0..15 /\ e.keys[k]

\* C14: for every value 0..255 of Vx, a tick that fetched Ex9E returns with
\* pc 4 further when key Vx is down and 2 further when it is not, a tick
\* that fetched ExA1 the other way round, and nothing else changed.
C14_SkipOnKeyNeverFails ==
  /\ (call.name = "tick" /\ IsEX9E(call.op)) =>
       /\ panic = "none"
       /\ pc = old.e.pc +
                 (IF KeyDown(old.e, old.e.v_reg[(call.op \div 256) % 16]) THEN 4 ELSE 2)
       /\ SameBut(Cur, old.e, { "pc" })
  /\ (call.name = "tick" /\ IsEXA1(call.op)) =>
       /\ panic = "none"
       /\ pc = old.e.pc +
                 (IF ~KeyDown(old.e, old.e.v_reg[(call.op \div 256) % 16]) THEN 4 ELSE 2)
       /\ SameBut(Cur, old.e, { "pc" })

\* C14 for the key numbers that exist: the same with Vx in 0..15.
C14_SkipOnKeyInRange ==
  LET vx == old.e.v_reg[(call.op \div 256) % 16]
  IN /\ (call.name = "tick" /\ IsEX9E(call.op) /\ vx <= 15) =>
          /\ panic = "none"
          /\ pc = old.e.pc + (IF old.e.keys[vx] THEN 4 ELSE 2)
          /\ SameBut(Cur, old.e, { "pc" })
     /\ (call.name = "tick" /\ IsEXA1(call.op) /\ vx <= 15) =>
          /\ panic = "none"
          /\ pc = old.e.pc + (IF ~old.e.keys[vx] THEN 4 ELSE 2)
          /\ SameBut(Cur, old.e, { "pc" })
     /\ (call.name = "tick" /\ (IsEX9E(call.op) \/ IsEXA1(call.op)) /\ vx > 15) =>
          panic = "index"

\* C15: a tick that fails leaves pc, the registers, the index register,
\* memory, the stack, the timers and the framebuffer as they were before
\* the call.
C15_FailureLeavesState ==
  (call.name = "tick" /\ panic # "none") => SameBut(Cur, old.e, {})

\* What a tick that fails does leave: the fetch has moved pc past the
\* instruction where it succeeded, and the writes made before the failing
\* statement stay (memory and registers; draw has cleared VF; in a build
\* without overflow checks 00EE has wrapped sp).
C15_FailureLeavesPartialState ==
  (call.name = "tick" /\ panic # "none") =>
    /\ pc = (IF call.op >= 0 THEN old.e.pc + 2 ELSE old.e.pc)
    /\ SameBut(Cur, old.e, { "pc", "ram", "v_reg", "sp", "screen" })
    /\ sp # old.e.sp => (old.e.sp = 0 /\ sp = U16 - 1 /\ ~overflow_checks)

\* C16: in a state no call has failed in, sp is within 0..16 and is the
\* number of 2nnn executed less the number of 00EE executed since
\* construction or the last reset; a 00EE leaves pc 2 past the address of
\* the latest 2nnn not yet returned from; sp and the stack slots change in
\* no tick that fetched another word, and in no tick_timers(), load() or
\* keypress().
C16_CallReturnLifo ==
  /\ panic = "none" =>
       /\ sp \in 0..16
       /\ sp = call_log.calls - call_log.rets
       /\ sp = Len(call_log.sites)
  /\ (Ticked /\ IsRet(call.op)) =>
       /\ old.call_log.sites # << >>
       /\ pc = old.call_log.sites[Len(old.call_log.sites)] + 2
  /\ (call.name = "tick" /\ ~IsCall(call.op) /\ ~IsRet(call.op)) =>
       (sp = old.e.sp /\ stack = old.e.stack)
  /\ call.name \in { "tick_timers", "load", "keypress" } =>
       (sp = old.e.sp /\ stack = old.e.stack)

\* C16's case: the second return of three nested calls, with key 3 pressed
\* meanwhile, went back into the second subroutine.
C16_Witness ==
  /\ Ticked
  /\ IsRet(call.op)
  /\ call_log.calls = 3
  /\ call_log.rets = 2
  /\ cycles = 5
  /\ sp = 1
  /\ pc = CallSite(1) + 2
  /\ keys[3]

\* the rows of the draw op on core e that lie below the bottom row
ClippedRows(e, op) == { r \in 0..(digit4(op) - 1) : OriginY(e, op) + r >= 32 }

\* the rows of the draw op on core e whose sprite byte lies past memory
RowsPastMemory(e, op) == { r \in 0..(digit4(op) - 1) : e.i_reg + r >= 4096 }

\* C17: a draw whose sprite bytes past the end of memory all belong to rows
\* below the bottom row does not read them: it completes, and changes no
\* pixel of those rows.
C17_ClippedRowsNotRead ==
  (/\ call.name = "tick"
   /\ IsDraw(call.op)
   /\ RowsPastMemory(old.e, call.op) \subseteq ClippedRows(old.e, call.op))
  => /\ panic = "none"
     /\ Changed(screen, old.e.screen) = ClaimedFlips(old.e, call.op)

\* What the draw does: it reads the byte of every row 0..n-1, clipped or not,
\* and fails at the first that lies past memory, with the rows before it
\* drawn; a draw that completes changed no pixel of a clipped row.
C17_EveryRowIsRead ==
  (call.name = "tick" /\ IsDraw(call.op)) =>
    /\ panic = "none" <=> RowsPastMemory(old.e, call.op) = {}
    /\ panic # "none" => panic = "index"
    /\ \A p \in Changed(screen, old.e.screen) : p \div 64 < 32

\* C18: after 8xy4, 8xy5, 8xy7, 8xy6 and 8xyE, for every x and y, VF holds
\* the flag of the operands held before the instruction (carry, no borrow,
\* no borrow, bit 0 of Vx, bit 7 of Vx), Vx holds the result when x # 15,
\* and no other register changed; 8xy6 and 8xyE shift Vx whatever Vy holds.
C18_FlagWrittenLast ==
  LET op == call.op
      x == (op \div 256) % 16
      y == (op \div 16) % 16
      vx == old.e.v_reg[x]
      vy == old.e.v_reg[y]
      Result(r, flag) ==
        /\ panic = "none"
        /\ v_reg[15] = flag
        /\ x # 15 => v_reg[x] = r
        /\ \A i \in 0..14 : i # x => v_reg[i] = old.e.v_reg[i]
        /\ SameBut(Cur, old.e, { "pc", "v_reg" })
  IN (call.name = "tick" /\ op \div 4096 = 8) =>
       /\ op % 16 = 4 => Result((vx + vy) % 256, IF vx + vy > 255 THEN 1 ELSE 0)
       /\ op % 16 = 5 => Result((vx - vy) % 256, IF vx >= vy THEN 1 ELSE 0)
       /\ op % 16 = 7 => Result((vy - vx) % 256, IF vy >= vx THEN 1 ELSE 0)
       /\ op % 16 = 6 => Result(vx \div 2, vx % 2)
       /\ op % 16 = 14 => Result((vx * 2) % 256, vx \div 128)

\* C18's case: 8F14 with VF = 255 and V1 = 1: the sum is 0 with a carry, and
\* VF ends as the carry, not as the sum.
C18_Witness ==
  /\ Ticked
  /\ call.op = 36628
  /\ old.e.v_reg[15] = 255
  /\ old.e.v_reg[1] = 1
  /\ v_reg[15] = 1

\* C18's other case: 8F16 with VF = 254: VF ends as bit 0 (0), not as 127.
C18_WitnessShift ==
  /\ Ticked
  /\ call.op = 36630
  /\ old.e.v_reg[15] = 254
  /\ old.e.v_reg[1] = 1
  /\ v_reg[15] = 0

\* C19: the framebuffer is the same after a tick that fetched a word other
\* than 00E0 and Dxyn and after tick_timers(), load() and keypress(); 00E0
\* leaves every cell off and changes nothing else but pc; get_screen()
\* changes nothing and returns cell (x, y) at index x + 64 * y: after glyph 0
\* (I = 0x050) was drawn at (0, 0), the cells of its rows F0 90 90 90 F0.
C19_FramebufferWriters ==
  /\ (call.name = "tick" /\ call.op \div 4096 # 13 /\ call.op # 224) =>
       screen = old.e.screen
  /\ call.name \in { "tick_timers", "load", "keypress" } => screen = old.e.screen
  /\ (call.name = "tick" /\ call.op = 224) =>
       /\ panic = "none"
       /\ \A x \in 0..63, y \in 0..31 : ~screen_get(screen, x + 64 * y)
       /\ pc = old.e.pc + 2
       /\ SameBut(Cur, old.e, { "pc", "screen" })
  /\ call.name = "get_screen" =>
       /\ panic = "none"
       /\ SameBut(Cur, old.e, {})
       /\ DOMAIN call.data = 0..2047
       /\ \A x \in 0..63, y \in 0..31 :
            call.data[x + 64 * y] = screen_get(old.e.screen, x + 64 * y)
  /\ (call.name = "get_screen" /\ old.call.name = "tick" /\ old.call.op = 53253
        /\ cycles = 2 /\ i_reg = 80) =>
       \A x \in 0..63, y \in 0..31 :
         call.data[x + 64 * y] =
           (x < 8 /\ y < 5 /\ (FONTSET[y + 1] \div (2 ^ (7 - x))) % 2 = 1)

\* C19's case: 00E0 cleared a framebuffer that had pixels on, with VF = 7, a
\* key down and the program loaded over in between.
C19_Witness ==
  /\ Ticked
  /\ call.op = 224
  /\ old.e.screen # {}
  /\ screen = {}
  /\ v_reg[15] = 7
  /\ keys[3]
  /\ ram_get(ram, 512) = 162

\* C19's other cases: the framebuffer read after the draw of glyph 0, and a
\* tick of another opcode (Fx55) on a framebuffer with pixels on.
C19_WitnessRead ==
  /\ call.name = "get_screen"
  /\ old.call.op = 53253
  /\ cycles = 2
  /\ i_reg = 80
  /\ call.data[0] /\ call.data[64] /\ ~call.data[65] /\ call.data[67] /\ call.data[259]

C19_WitnessOther ==
  /\ Ticked
  /\ call.op = 61781
  /\ screen # {}
  /\ cycles = 4

IsFX1E == call.name = "tick" /\ call.op \div 4096 = 15 /\ call.op % 256 = 30

\* C20: a tick that fetched Fx1E never fails, leaves I = (I + Vx) mod 65536
\* with the Vx of before, and VF = 1 if the new I is >= 0x1000 and 0 otherwise.
C20_AddIndexNeverFails ==
  IsFX1E =>
    /\ panic = "none"
    /\ i_reg = (old.e.i_reg + old.e.v_reg[(call.op \div 256) % 16]) % 65536
    /\ v_reg[15] = (IF i_reg >= 4096 THEN 1 ELSE 0)

\* What the code does: C20's statement while the sum fits 16 bits or the
\* build has no overflow checks; with them, a sum above 0xFFFF is a failure
\* that leaves I and VF as they were.
C20_AddIndexFailsOnOverflow ==
  IsFX1E =>
    LET sum == old.e.i_reg + old.e.v_reg[(call.op \div 256) % 16]
    IN IF sum >= 65536 /\ overflow_checks
       THEN panic = "overflow" /\ i_reg = old.e.i_reg /\ v_reg = old.e.v_reg
       ELSE /\ panic = "none"
            /\ i_reg = sum % 65536
            /\ v_reg[15] = (IF i_reg >= 4096 THEN 1 ELSE 0)

\* the sum passed 0xFFFF in a build that wraps
C20_WitnessWraps ==
  /\ IsFX1E
  /\ panic = "none"
  /\ i_reg < old.e.i_reg
  /\ v_reg[15] = 0

=============================================================================
